---------------------------- MODULE Spec2Model ----------------------------
(***************************************************************************)
(* Model of deepchem/models/tensorflow_models/fcnet.py (fully connected    *)
(* multitask networks, their adversarial variants and the fit-transform    *)
(* regressor) and of examples/gdb7/gdb7_tf_model.py.                       *)
(*                                                                         *)
(* One object is constructed in Init; a behaviour is one method call on    *)
(* it (build/model, construct_graph, fit, predict_on_batch) followed step  *)
(* by step, or one run of the example script.  predict_on_batch may be     *)
(* called again on the same object once it has returned.                   *)
(***************************************************************************)
EXTENDS Integers, Sequences, FiniteSets, TLC

VARIABLES self, pc, fit, pred, bld, cg, script

vars == <<self, pc, fit, pred, bld, cg, script>>

\* ----------------------------------------------------------------- bounds
MaxLayers == 2      \* longest per-layer parameter list
MaxWidth == 2       \* largest hidden layer size
MaxTasks == 2       \* largest n_tasks
MaxEpoch == 3       \* largest nb_epoch passed to fit
MaxKeep == 2        \* largest max_checkpoints_to_keep passed to fit
MaxBatches == 2     \* most minibatches dataset.iterbatches yields per epoch
MaxEvals == 2       \* largest n_evals
MaxSamples == 2     \* most rows of X given to predict_on_batch
MaxTransformers == 2 \* longest fit_transformers list

\* ---------------------------------------------------------------- helpers
SeqsUpTo(S, n) == UNION {[1..k -> S] : k \in 0..n}

RECURSIVE SumSeq(_)
SumSeq(s) == IF s = <<>> THEN 0 ELSE Head(s) + SumSeq(Tail(s))

RECURSIVE Product(_)
Product(s) == IF s = <<>> THEN 1 ELSE Head(s) * Product(Tail(s))

Min(a, b) == IF a <= b THEN a ELSE b

\* ---------------------------------------------------------------- classes
Classifier == "TensorflowMultiTaskClassifier"
Regressor == "TensorflowMultiTaskRegressor"
AdvClassifier == "TensorflowAdversarialMultiTaskClassifier"
AdvRegressor == "TensorflowAdversarialMultiTaskRegressor"
FitTransformRegressor == "TensorflowMultiTaskFitTransformRegressor"
ScriptRun == "gdb7_tf_model"

\* Classes whose graph outputs are the regressor heads of build/model.
RegressorClasses == {Regressor, AdvRegressor, FitTransformRegressor}
\* Classes that define model(graph, x, ...) and construct_graph.
AdversarialClasses == {AdvClassifier, AdvRegressor}
\* Classes that define fit in this file.
FitClasses == {AdvClassifier, FitTransformRegressor}

n_features == 3

\* The fit transformers the model draws from: X_transform adds one, doubles,
\* or adds a random amount drawn anew on every call.
TransformerKinds == {"inc", "dbl", "noise"}

\* The objects of the four graph-building classes: any four per-layer lists.
GraphObjects ==
  [cls : {Classifier, Regressor, AdvClassifier, AdvRegressor},
   n_tasks : 1..MaxTasks,
   layer_sizes : SeqsUpTo(1..MaxWidth, MaxLayers),
   n_weight_init_stddevs : 0..MaxLayers,
   n_bias_init_consts : 0..MaxLayers,
   n_dropouts : 0..MaxLayers,
   n_evals : {1},
   fit_transformers : {<<>>},
   pad_batches : {FALSE},
   restored_model : {FALSE}]

\* TensorflowMultiTaskFitTransformRegressor.__init__ with its default
\* per-layer lists (one layer) and any n_evals and fit_transformers.
FitTransformObjects ==
  [cls : {FitTransformRegressor},
   n_tasks : 1..MaxTasks,
   layer_sizes : {<<MaxWidth>>},
   n_weight_init_stddevs : {1},
   n_bias_init_consts : {1},
   n_dropouts : {1},
   n_evals : 0..MaxEvals,
   fit_transformers : SeqsUpTo(TransformerKinds, MaxTransformers),
   pad_batches : {FALSE},
   restored_model : {FALSE}]

ScriptObject ==
  [cls |-> ScriptRun, n_tasks |-> 1, layer_sizes |-> <<>>,
   n_weight_init_stddevs |-> 0, n_bias_init_consts |-> 0, n_dropouts |-> 0,
   n_evals |-> 1, fit_transformers |-> <<>>, pad_batches |-> FALSE,
   restored_model |-> FALSE]

\* ------------------------------------------------- the per-layer assertions
lengths_set_no_dropouts(o) ==
  {Len(o.layer_sizes), o.n_weight_init_stddevs, o.n_bias_init_consts}

\* lengths_set of build/model: the lengths of the four per-layer lists.
lengths_set(o) ==
  {Len(o.layer_sizes), o.n_weight_init_stddevs, o.n_bias_init_consts,
   o.n_dropouts}

\* The two assert statements: "ok", or the AssertionError raised.
AssertLayerParams(o) ==
  IF Cardinality(lengths_set(o)) # 1 THEN "AssertionError"
  ELSE IF ~((CHOOSE n \in lengths_set(o) : TRUE) > 0) THEN "AssertionError"
  ELSE "ok"

\* n_layers = lengths_set.pop()
n_layers(o) == CHOOSE n \in lengths_set(o) : TRUE

\* An object whose constructor returned: construct_graph built its train and
\* eval graphs, so build/model raised nothing.
Constructed(o) == AssertLayerParams(o) = "ok"

\* ------------------------------------------------------------ tf.train.Saver
SaverDefault(max_checkpoints_to_keep) ==
  [max_to_keep |-> 5, last_checkpoints |-> <<>>]

\* tf.train.Saver(max_to_keep=max_checkpoints_to_keep): a saver keeps the
\* list of the checkpoints it wrote, oldest first.
Saver(max_checkpoints_to_keep) ==
  [max_to_keep |-> max_checkpoints_to_keep, last_checkpoints |-> <<>>]

RemoveAll(s, x) == SelectSeq(s, LAMBDA y : y # x)

\* saver.save(sess, path, global_step): writes the checkpoint path-global_step,
\* records it as the most recent one (a name written before moves to the end)
\* and, with more than max_to_keep recorded, deletes the oldest.  max_to_keep
\* of 0 keeps every checkpoint.
SaverSave(st, global_step) ==
  LET recorded == Append(RemoveAll(st.saver.last_checkpoints, global_step),
                         global_step)
      over == st.saver.max_to_keep # 0 /\ Len(recorded) > st.saver.max_to_keep
      kept == IF over THEN Tail(recorded) ELSE recorded
      files == st.files \cup {global_step}
  IN [st EXCEPT !.saver.last_checkpoints = kept,
                !.files = IF over THEN files \ {Head(recorded)} ELSE files,
                !.saved = Append(st.saved, global_step),
                !.last_op = "save"]

\* ---------------------------------------------------------------------- fit
FitIdle ==
  [nb_epoch |-> 0, max_checkpoints_to_keep |-> 0, batches |-> 0,
   epoch_bound |-> FALSE, epoch |-> 0, ind |-> 0, n_batches |-> 0,
   train_steps |-> 0, transform_calls |-> 0, saver |-> Saver(0), files |-> {}, saved |-> <<>>,
   last_op |-> "none", error |-> "none"]

\* global_step of the checkpoint written after the loop.
FinalStep(st) == st.epoch + 1

\* fit up to the initial checkpoint: the saver is created and saves step 0.
FitCall(nb_epoch, max_checkpoints_to_keep, batches) ==
  /\ pc = "idle"
  /\ self.cls \in FitClasses
  /\ Constructed(self)
  /\ fit' = SaverSave([FitIdle EXCEPT
                         !.nb_epoch = nb_epoch,
                         !.max_checkpoints_to_keep = max_checkpoints_to_keep,
                         !.batches = batches,
                         !.saver = Saver(max_checkpoints_to_keep)], 0)
  /\ pc' = "fit_epoch"
  /\ UNCHANGED <<self, pred, bld, cg, script>>

\* for epoch in range(nb_epoch): the next epoch, or the end of the loop.
FitEpoch ==
  /\ pc = "fit_epoch"
  /\ LET next == IF fit.epoch_bound THEN fit.epoch + 1 ELSE 0
     IN IF next < fit.nb_epoch
        THEN /\ fit' = [fit EXCEPT !.epoch_bound = TRUE, !.epoch = next,
                                   !.n_batches = 0, !.ind = 0]
             /\ pc' = "fit_batch"
        ELSE /\ fit' = fit
             /\ pc' = "fit_final"
  /\ UNCHANGED <<self, pred, bld, cg, script>>

\* One minibatch: the fit-transform regressor runs X_b through its
\* transformers; then the feed dictionary and one run of the training op.
FitBatch ==
  /\ pc = "fit_batch"
  /\ fit.ind < fit.batches
  /\ fit' = [fit EXCEPT !.ind = @ + 1, !.n_batches = @ + 1,
                        !.transform_calls =
                           IF self.cls = FitTransformRegressor
                           THEN @ + Len(self.fit_transformers) ELSE @,
                        !.train_steps = @ + 1, !.last_op = "train"]
  /\ UNCHANGED <<self, pc, pred, bld, cg, script>>

\* End of an epoch: save at global_step = epoch, then average the loss.
FitEpochEnd ==
  /\ pc = "fit_batch"
  /\ fit.ind = fit.batches
  /\ LET st == SaverSave(fit, fit.epoch)
     IN IF st.n_batches = 0
        THEN /\ fit' = [st EXCEPT !.error = "ZeroDivisionError"]
             /\ pc' = "fit_raised"
        ELSE /\ fit' = st
             /\ pc' = "fit_epoch"
  /\ UNCHANGED <<self, pred, bld, cg, script>>

\* The final checkpoint, at global_step = epoch + 1.
FitFinal ==
  /\ pc = "fit_final"
  /\ IF ~fit.epoch_bound
     THEN /\ fit' = [fit EXCEPT !.error = "UnboundLocalError"]
          /\ pc' = "fit_raised"
     ELSE /\ fit' = SaverSave(fit, FinalStep(fit))
          /\ pc' = "fit_returned"
  /\ UNCHANGED <<self, pred, bld, cg, script>>

Fit ==
  \/ \E e \in 0..MaxEpoch, k \in 0..MaxKeep, b \in 0..MaxBatches : FitCall(e, k, b)
  \/ FitEpoch
  \/ FitBatch
  \/ FitEpochEnd
  \/ FitFinal

\* ------------------------------------------------------------- fit: claims
FitEnded == pc \in {"fit_returned", "fit_raised"}

\* C1: for every nb_epoch >= 0, fit terminates normally and its last action
\* on the saver is a save with global_step = nb_epoch, made after the last
\* training step.  (Stated for datasets that yield at least one minibatch.)
C1_FitSavesFinalCheckpoint ==
  (FitEnded /\ fit.batches >= 1) =>
    /\ pc = "fit_returned"
    /\ fit.error = "none"
    /\ fit.last_op = "save"
    /\ fit.saved # <<>>
    /\ fit.saved[Len(fit.saved)] = fit.nb_epoch

\* The k most recently saved distinct checkpoints of a save history: those
\* after whose last save fewer than k other checkpoints were saved.
LaterDistinct(saved, i) == {saved[j] : j \in (i + 1)..Len(saved)} \ {saved[i]}

IsLastSave(saved, i) == \A j \in (i + 1)..Len(saved) : saved[j] # saved[i]

MostRecent(saved, k) ==
  {saved[i] : i \in {i \in 1..Len(saved) :
      IsLastSave(saved, i) /\ Cardinality(LaterDistinct(saved, i)) < k}}

Array(shape, data) == [shape |-> shape, data |-> data]

RECURSIVE Flatten(_)
Flatten(ss) == IF ss = <<>> THEN <<>> ELSE Head(ss) \o Flatten(Tail(ss))

\* np.asarray of a list of arrays of one shape.
AsArray(list) ==
  Array(<<Len(list)>> \o list[1].shape,
        Flatten([k \in 1..Len(list) |-> list[k].data]))

\* a.transpose((1, 0)) of a 2-D array.
Transpose(a) ==
  LET rows == a.shape[1]
      cols == a.shape[2]
  IN Array(<<cols, rows>>,
           [k \in 1..(rows * cols) |->
              a.data[((k - 1) % rows) * cols + ((k - 1) \div rows) + 1]])

\* a.reshape(shape)
Reshape(a, shape) == Array(shape, a.data)

\* np.squeeze(a): the axes of length 1 are dropped.
Squeeze(a) == Array(SelectSeq(a.shape, LAMBDA d : d # 1), a.data)

\* a[:k] of an array of rank >= 1.
TakeRows(a, k) ==
  LET rows == Min(k, a.shape[1])
  IN Array(<<rows>> \o Tail(a.shape),
           SubSeq(a.data, 1, rows * Product(Tail(a.shape))))

\* np.mean(np.array(list), axis=0): element-wise, kept as the sums (num)
\* over the number of arrays (den).
MeanAxis0(list) ==
  [shape |-> list[1].shape,
   num |-> [k \in 1..Len(list[1].data) |->
              SumSeq([e \in 1..Len(list) |-> list[e].data[k]])],
   den |-> Len(list)]

\* ------------------------------------------------------- predict_on_batch
MaxValue == 1       \* largest feature value of a row of X

\* transformer.X_transform(X): row by row; r is the amount a "noise"
\* transformer draws on this call.
X_transform(kind, X, r) ==
  [k \in 1..Len(X) |->
     IF kind = "inc" THEN X[k] + 1
     ELSE IF kind = "dbl" THEN 2 * X[k]
     ELSE X[k] + r]

\* for transformer in self.fit_transformers: X_t = transformer.X_transform(X_t)
RECURSIVE ApplyTransformers(_, _, _)
ApplyTransformers(ts, X, rs) ==
  IF ts = <<>> THEN X
  ELSE ApplyTransformers(Tail(ts), X_transform(Head(ts), X, Head(rs)), Tail(rs))

\* The value the eval graph computes for one task (0-based) from one row:
\* the framework's numerics, any function that tells rows and tasks apart.
Net(x, task) == 100 * task + x

\* session.run(self.eval_graph.output, feed_dict): one array per task, the
\* head's [n, 1] output squeezed: shape (n,), or () for a single row.
RunEvalGraph(X_fed, n_tasks) ==
  [t \in 1..n_tasks |->
     Array(IF Len(X_fed) = 1 THEN <<>> ELSE <<Len(X_fed)>>,
           [k \in 1..Len(X_fed) |-> Net(X_fed[k], t - 1)])]

\* batch_outputs of one evaluation, reshaped to n_samples x n_tasks and with
\* the padding pruned; "ValueError" for an unrecognized rank.
BatchOutputs(data, n_tasks, n_samples, len_X) ==
  LET raw == AsArray(SubSeq(data, 1, n_tasks))
      ndim == Len(raw.shape)
  IN IF ndim = 2 THEN TakeRows(Transpose(raw), n_samples)
     ELSE IF ndim = 1 THEN TakeRows(Reshape(raw, <<len_X, n_tasks>>), len_X)
     ELSE "ValueError"

\* The value returned from the per-evaluation outputs.
PredictResult(outputs, len_unpadded) ==
  LET m == MeanAxis0(outputs)
  IN IF Len(m.shape) > 0
     THEN LET cut == TakeRows(Array(m.shape, m.num), len_unpadded)
          IN [shape |-> cut.shape, num |-> cut.data, den |-> m.den]
     ELSE [shape |-> <<1>>, num |-> m.num, den |-> m.den]

\* self.restore(): loads the last checkpoint into the eval session and marks
\* the model restored.
Restore(o) == [o EXCEPT !.restored_model = TRUE]

PredIdle ==
  [X |-> <<>>, X_evals |-> <<>>, X_t_bound |-> FALSE, i |-> 0,
   len_unpadded |-> 0, n_samples |-> 0, transform_calls |-> 0,
   restored_at_entry |-> FALSE, restore_calls |-> 0, runs |-> <<>>,
   outputs |-> <<>>, result |-> [shape |-> <<>>, num |-> <<>>, den |-> 0],
   error |-> "none"]

\* The call: X arrives, nothing is computed yet.
PredictCall(X) ==
  /\ pc \in {"idle", "pred_returned"}
  /\ self.cls = FitTransformRegressor
  /\ Constructed(self)
  /\ pred' = [PredIdle EXCEPT !.X = X,
                              !.restored_at_entry = self.restored_model]
  /\ pc' = "pred_transform"
  /\ UNCHANGED <<self, fit, bld, cg, script>>

\* One pass of the first loop: X run through every fit transformer in order.
PredictTransform(rs) ==
  /\ pc = "pred_transform"
  /\ pred.i < self.n_evals
  /\ pred' = [pred EXCEPT
                !.X_evals = Append(@, ApplyTransformers(self.fit_transformers,
                                                        pred.X, rs)),
                !.X_t_bound = TRUE,
                !.transform_calls = @ + Len(self.fit_transformers),
                !.i = @ + 1]
  /\ UNCHANGED <<self, pc, fit, bld, cg, script>>

\* len_unpadded = len(X_t), the padding (pad_features is not defined in the
\* module), and the restore of a model not restored yet.
PredictRestore ==
  /\ pc = "pred_transform"
  /\ pred.i = self.n_evals
  /\ IF ~pred.X_t_bound
     THEN /\ pred' = [pred EXCEPT !.error = "UnboundLocalError"]
          /\ pc' = "pred_raised"
          /\ self' = self
     ELSE IF self.pad_batches
     THEN /\ pred' = [pred EXCEPT !.error = "NameError"]
          /\ pc' = "pred_raised"
          /\ self' = self
     ELSE /\ pred' = [pred EXCEPT
                        !.len_unpadded = Len(pred.X_evals[Len(pred.X_evals)]),
                        !.n_samples = Len(pred.X_evals[1]),
                        !.restore_calls =
                           IF ~self.restored_model THEN @ + 1 ELSE @,
                        !.i = 0]
          /\ self' = IF ~self.restored_model THEN Restore(self) ELSE self
          /\ pc' = "pred_run"
  /\ UNCHANGED <<fit, bld, cg, script>>

\* One pass of the second loop: X_evals[i] is fed to the eval graph.
PredictRun ==
  /\ pc = "pred_run"
  /\ pred.i < self.n_evals
  /\ LET fed == pred.X_evals[pred.i + 1]
         data == RunEvalGraph(fed, self.n_tasks)
         batch_outputs == BatchOutputs(data, self.n_tasks, pred.n_samples,
                                       Len(pred.X))
     IN pred' = [pred EXCEPT
                   !.runs = Append(@, [fed |-> fed,
                                       restored |-> self.restored_model]),
                   !.outputs = Append(@, Squeeze(batch_outputs)),
                   !.i = @ + 1]
  /\ UNCHANGED <<self, pc, fit, bld, cg, script>>

\* The mean over the evaluations, cut to len_unpadded rows, is returned.
PredictReturn ==
  /\ pc = "pred_run"
  /\ pred.i = self.n_evals
  /\ pred' = [pred EXCEPT !.result = PredictResult(pred.outputs,
                                                   pred.len_unpadded)]
  /\ pc' = "pred_returned"
  /\ UNCHANGED <<self, fit, bld, cg, script>>

Predict ==
  \/ \E X \in SeqsUpTo(0..MaxValue, MaxSamples) \ {<<>>} : PredictCall(X)
  \/ \E rs \in [1..Len(self.fit_transformers) -> 0..1] : PredictTransform(rs)
  \/ PredictRestore
  \/ PredictRun
  \/ PredictReturn

\* ------------------------------------------------ predict_on_batch: claims
PredictEnded == pc \in {"pred_returned", "pred_raised"}

\* What the fit transformers, applied in list order, can make of X.
TransformsOf(ts, X) ==
  {ApplyTransformers(ts, X, rs) : rs \in [1..Len(ts) -> 0..1]}

\* The sum over the evaluations of the output for row r (1-based), task t
\* (0-based).
SumOfEvals(r, t) ==
  SumSeq([e \in 1..Len(pred.runs) |-> Net(pred.runs[e].fed[r], t)])

\* C3: for every n_evals >= 0 and every X, predict_on_batch runs the eval
\* graph exactly n_evals times, the i-th run fed X transformed by all
\* fit_transformers in list order (recomputed for each evaluation), and
\* returns the element-wise mean of the n_evals outputs, one row per example.
C3_PredictMeansEvals ==
  PredictEnded =>
    /\ pc = "pred_returned"
    /\ Len(pred.runs) = self.n_evals
    /\ pred.transform_calls = self.n_evals * Len(self.fit_transformers)
    /\ \A e \in 1..Len(pred.runs) :
         /\ pred.runs[e].fed = pred.X_evals[e]
         /\ pred.runs[e].fed \in TransformsOf(self.fit_transformers, pred.X)
    /\ pred.result.den = self.n_evals
    /\ pred.result.shape # <<>>
    /\ pred.result.shape[1] = Len(pred.X)
    /\ pred.result.num =
         [k \in 1..(Len(pred.X) * self.n_tasks) |->
            SumOfEvals(((k - 1) \div self.n_tasks) + 1,
                       (k - 1) % self.n_tasks)]

\* C4: every run of the eval graph happens on a restored model, and
\* predict_on_batch calls restore() exactly when _restored_model is false at
\* entry.
C4_RestoreBeforeEval ==
  /\ \A e \in 1..Len(pred.runs) : pred.runs[e].restored
  /\ PredictEnded =>
       pred.restore_calls = (IF pred.restored_at_entry THEN 0 ELSE 1)

\* ------------------------------------------------------------ build / model
BuildIdle ==
  [training |-> FALSE, placeholders |-> 0, layers |-> <<>>, heads |-> <<>>,
   i |-> 0, prev_layer_size |-> 0, error |-> "none"]

\* One fully_connected_layer call: the size declared, the shapes of its
\* weight_init and bias_init, and the layer that feeds it (0 is the input).
Dense(size, weight_shape, bias_shape, input) ==
  [size |-> size, weight_shape |-> weight_shape, bias_shape |-> bias_shape,
   input |-> input]

\* Hidden layer number k (1-based) of the loop over range(n_layers).
HiddenLayer(o, k, prev_layer_size) ==
  Dense(o.layer_sizes[k], <<prev_layer_size, o.layer_sizes[k]>>,
        <<o.layer_sizes[k]>>, k - 1)

\* The regressors' output heads: one per task, built after the loop, when i
\* is still the index of the last hidden layer.
RegressorHeads(o, st) ==
  [task \in 1..o.n_tasks |->
     Dense(o.layer_sizes[st.i], <<st.prev_layer_size, 1>>, <<1>>,
           Len(st.layers))]

\* model_ops.multitask_logits(layer, n_tasks): one two-class logits head per
\* task on the last hidden layer.
MultitaskLogits(o, st) ==
  [task \in 1..o.n_tasks |->
     Dense(2, <<st.prev_layer_size, 2>>, <<2>>, Len(st.layers))]

\* build(graph, name_scopes, training) makes the mol_features placeholder;
\* model(graph, x, name_scopes, training) is handed x.  Both then check the
\* per-layer lists.
BuildCall(training) ==
  /\ pc = "idle"
  /\ self.cls \notin {ScriptRun}
  /\ LET checked == AssertLayerParams(self)
         st == [BuildIdle EXCEPT
                  !.training = training,
                  !.placeholders =
                     IF self.cls \in AdversarialClasses THEN 0 ELSE 1,
                  !.prev_layer_size = n_features]
     IN IF checked # "ok"
        THEN /\ bld' = [st EXCEPT !.error = checked]
             /\ pc' = "bld_raised"
        ELSE /\ bld' = st
             /\ pc' = "bld_layer"
  /\ UNCHANGED <<self, fit, pred, cg, script>>

\* One pass of the loop over range(n_layers): a dense layer, relu, dropout.
\* Indexing a list past its end raises IndexError; dropouts[i] is read after
\* the dense layer exists.
BuildLayer ==
  /\ pc = "bld_layer"
  /\ bld.i < n_layers(self)
  /\ LET k == bld.i + 1
     IN IF k > Len(self.layer_sizes) \/ k > self.n_weight_init_stddevs
           \/ k > self.n_bias_init_consts
        THEN /\ bld' = [bld EXCEPT !.error = "IndexError"]
             /\ pc' = "bld_raised"
        ELSE LET layer == HiddenLayer(self, k, bld.prev_layer_size)
             IN IF k > self.n_dropouts
                THEN /\ bld' = [bld EXCEPT !.layers = Append(@, layer),
                                           !.error = "IndexError"]
                     /\ pc' = "bld_raised"
                ELSE /\ bld' = [bld EXCEPT
                                  !.layers = Append(@, layer),
                                  !.prev_layer_size = self.layer_sizes[k],
                                  !.i = k]
                     /\ pc' = "bld_layer"
  /\ UNCHANGED <<self, fit, pred, cg, script>>

\* After the loop: the output heads.
BuildOutput ==
  /\ pc = "bld_layer"
  /\ bld.i = n_layers(self)
  /\ bld' = [bld EXCEPT !.heads = IF self.cls \in RegressorClasses
                                  THEN RegressorHeads(self, bld)
                                  ELSE MultitaskLogits(self, bld)]
  /\ pc' = "bld_returned"
  /\ UNCHANGED <<self, fit, pred, cg, script>>

Build ==
  \/ \E training \in BOOLEAN : BuildCall(training)
  \/ BuildLayer
  \/ BuildOutput

\* ----------------------------------------------------- build / model: claims
BuildActive == pc \in {"bld_layer", "bld_returned", "bld_raised"}

LayerParamsValid(o) ==
  /\ Len(o.layer_sizes) = o.n_weight_init_stddevs
  /\ Len(o.layer_sizes) = o.n_bias_init_consts
  /\ Len(o.layer_sizes) = o.n_dropouts
  /\ Len(o.layer_sizes) > 0

\* C5: build and model raise an AssertionError, before any dense layer or
\* output head is created, whenever the four per-layer lists do not all have
\* the same length or that length is 0; when the four lengths are equal and
\* positive, exactly that many hidden layers are created.
C5_LayerParamsChecked ==
  BuildActive =>
    /\ ~LayerParamsValid(self) =>
         /\ pc = "bld_raised"
         /\ bld.error = "AssertionError"
         /\ bld.layers = <<>>
         /\ bld.heads = <<>>
    /\ LayerParamsValid(self) =>
         /\ bld.error = "none"
         /\ pc # "bld_raised"
         /\ pc = "bld_returned" => Len(bld.layers) = Len(self.layer_sizes)

\* The assertion fired on lists of different lengths, nothing was created.
C5_Witness ==
  /\ pc = "bld_raised"
  /\ bld.error = "AssertionError"
  /\ Len(self.layer_sizes) > 0
  /\ self.n_dropouts # Len(self.layer_sizes)
  /\ self.n_weight_init_stddevs = Len(self.layer_sizes)
  /\ self.n_bias_init_consts = Len(self.layer_sizes)
  /\ bld.layers = <<>>

\* C8: in the regressor graphs hidden layer i has weight shape
\* [n_features, layer_sizes[0]] for i = 0 and [layer_sizes[i-1],
\* layer_sizes[i]] otherwise, with bias shape [layer_sizes[i]]; the result is
\* exactly n_tasks heads, each fed by the last hidden layer with weight shape
\* [layer_sizes[-1], 1] and bias shape [1], and the size declared for each
\* head equals its output width 1.
C8_RegressorShapesChain ==
  (pc = "bld_returned" /\ self.cls \in {Regressor, AdvRegressor}) =>
    LET sizes == self.layer_sizes
        last == Len(sizes)
    IN /\ Len(bld.layers) = last
       /\ \A k \in 1..last :
            /\ bld.layers[k].weight_shape =
                 <<IF k = 1 THEN n_features ELSE sizes[k - 1], sizes[k]>>
            /\ bld.layers[k].bias_shape = <<sizes[k]>>
            /\ bld.layers[k].input = k - 1
       /\ Len(bld.heads) = self.n_tasks
       /\ \A t \in 1..Len(bld.heads) :
            /\ bld.heads[t].input = last
            /\ bld.heads[t].weight_shape = <<sizes[last], 1>>
            /\ bld.heads[t].bias_shape = <<1>>
            /\ bld.heads[t].size = 1

\* ---------------------------------------------------------- construct_graph
\* Graph nodes are written as token sequences: Op(name, <<a, b>>) is the
\* node name(a, b).
Op(name, args) == <<name, "(">> \o Flatten(args) \o <<")">>

None == <<"None">>

eps == <<"0.1">>

\* self.model(graph, x, name_scopes, training)
Model(x, training) ==
  Op("model", <<x, <<IF training THEN "training" ELSE "eval">>>>)

\* self.add_training_cost(graph, name_scopes, output, labels, weights)
TrainingCost(output, labels, weights) ==
  Op("training_cost", <<output, labels, weights>>)

AdversarialInputNoStop(x, loss_1) ==
  Op("add", <<x, Op("mul", <<eps,
                      Op("sign", <<Op("gradients", <<loss_1, x>>)>>)>>)>>)

\* adv_x: x moved by eps along the sign of the gradient of loss_1, with the
\* gradient stopped.
AdversarialInput(x, loss_1) ==
  Op("stop_gradient",
     <<Op("add", <<x, Op("mul", <<eps,
                         Op("sign", <<Op("gradients", <<loss_1, x>>)>>)>>)>>)>>)

\* loss = (loss_1 + loss_2)/2.
ComposeLoss(loss_1, loss_2) ==
  Op("div", <<Op("add", <<loss_1, loss_2>>), <<"2">>>>)

GraphIdle ==
  [training |-> FALSE, x |-> <<>>, output |-> <<>>, labels |-> <<>>,
   weights |-> <<>>, loss_bound |-> FALSE, loss |-> <<>>, model_calls |-> 0,
   returned |-> [output |-> <<>>, labels |-> <<>>, weights |-> <<>>,
                 loss |-> <<>>],
   error |-> "none"]

\* Up to the weights placeholders: x, the model on x, labels, weights.
GraphCall(training) ==
  /\ pc = "idle"
  /\ self.cls \in AdversarialClasses
  /\ LET checked == AssertLayerParams(self)
     IN IF checked # "ok"
        THEN /\ cg' = [GraphIdle EXCEPT !.training = training,
                                        !.x = <<"x">>,
                                        !.error = checked]
             /\ pc' = "cg_raised"
        ELSE /\ cg' = [GraphIdle EXCEPT
                         !.training = training,
                         !.x = <<"x">>,
                         !.output = Model(<<"x">>, training),
                         !.labels = <<"labels">>,
                         !.weights = <<"weights">>,
                         !.model_calls = 1]
             /\ pc' = "cg_training"
  /\ UNCHANGED <<self, fit, pred, bld, script>>

\* if training: the loss on x, the adversarial input, the loss on it, and
\* their mean.
GraphTraining ==
  /\ pc = "cg_training"
  /\ IF cg.training
     THEN LET loss_1 == TrainingCost(cg.output, cg.labels, cg.weights)
              adv_x == AdversarialInput(cg.x, loss_1)
              adv_output == Model(adv_x, cg.training)
              loss_2 == TrainingCost(adv_output, cg.labels, cg.weights)
          IN cg' = [cg EXCEPT !.loss = ComposeLoss(loss_1, loss_2),
                              !.loss_bound = TRUE,
                              !.model_calls = @ + 1]
     ELSE cg' = cg
  /\ pc' = "cg_return"
  /\ UNCHANGED <<self, fit, pred, bld, script>>

\* if not training: no loss, the output ops on the output.  Then the
\* TensorflowGraph is returned.
GraphReturn ==
  /\ pc = "cg_return"
  /\ LET loss == IF ~cg.training THEN None ELSE cg.loss
         output == IF ~cg.training THEN Op("output_ops", <<cg.output>>)
                   ELSE cg.output
     IN cg' = [cg EXCEPT
                 !.loss = loss, !.loss_bound = TRUE, !.output = output,
                 !.returned = [output |-> output, labels |-> cg.labels,
                               weights |-> cg.weights, loss |-> loss]]
  /\ pc' = "cg_returned"
  /\ UNCHANGED <<self, fit, pred, bld, script>>

ConstructGraph ==
  \/ \E training \in BOOLEAN : GraphCall(training)
  \/ GraphTraining
  \/ GraphReturn

\* -------------------------------------------------- construct_graph: claims
\* The graphs the claim describes, token by token.
OutputOnX == <<"model", "(", "x", "training", ")">>

Loss1 == <<"training_cost", "(">> \o OutputOnX \o <<"labels", "weights", ")">>

AdvX ==
  <<"stop_gradient", "(", "add", "(", "x", "mul", "(", "0.1", "sign", "(",
    "gradients", "(">> \o Loss1 \o <<"x", ")", ")", ")", ")", ")">>

Loss2 ==
  <<"training_cost", "(", "model", "(">> \o AdvX
    \o <<"training", ")", "labels", "weights", ")">>

\* C6: with training=True the returned graph's loss is (loss_1 + loss_2)/2,
\* loss_1 the training cost on x and loss_2 the training cost, with the same
\* labels and weights, on adv_x = stop_gradient(x + 0.1*sign(d loss_1/dx)),
\* and output is the raw model output on x; with training=False the loss is
\* None, no adversarial branch is built, and output is the model output
\* passed through add_output_ops.
C6_AdversarialLoss ==
  pc = "cg_returned" =>
    IF cg.training
    THEN /\ cg.returned.loss =
              <<"div", "(", "add", "(">> \o Loss1 \o Loss2 \o <<")", "2", ")">>
         /\ cg.returned.output = OutputOnX
         /\ cg.model_calls = 2
    ELSE /\ cg.returned.loss = <<"None">>
         /\ cg.returned.output =
              <<"output_ops", "(", "model", "(", "x", "eval", ")", ")">>
         /\ cg.model_calls = 1

\* A training graph was returned, its adversarial branch built.
C6_Witness ==
  /\ pc = "cg_returned"
  /\ cg.training
  /\ cg.model_calls = 2
  /\ cg.returned.loss # <<"None">>

\* ------------------------------------------------------- the example script
\* The statements of gdb7_tf_model.py in order: the names each reads and
\* binds, and the step of the run it is.
Statements ==
  << [line |-> 8, reads |-> {}, binds |-> {"os"}, step |-> ""],
     [line |-> 9, reads |-> {}, binds |-> {"dc"}, step |-> ""],
     [line |-> 10, reads |-> {}, binds |-> {"np"}, step |-> ""],
     [line |-> 11, reads |-> {},
      binds |-> {"load_gdb7", "load_gdb7_from_mat"}, step |-> ""],
     [line |-> 13, reads |-> {"np"}, binds |-> {}, step |-> ""],
     [line |-> 14, reads |-> {}, binds |-> {"split"}, step |-> ""],
     [line |-> 15, reads |-> {}, binds |-> {"num_atoms"}, step |-> ""],
     [line |-> 18, reads |-> {"dc"}, binds |-> {"featurizer"}, step |-> ""],
     [line |-> 19, reads |-> {"load_gdb7", "featurizer"},
      binds |-> {"gdb7_tasks", "dataset", "transformers"}, step |-> "load"],
     [line |-> 20, reads |-> {"datasets"},
      binds |-> {"train_dataset", "test_dataset"}, step |-> "unpack"],
     [line |-> 21, reads |-> {"train_dataset"}, binds |-> {"n_features"},
      step |-> ""],
     [line |-> 24, reads |-> {"dc"}, binds |-> {"regression_metric"},
      step |-> ""],
     [line |-> 26, reads |-> {"dc", "n_features", "np"}, binds |-> {"model"},
      step |-> "construct"],
     [line |-> 33, reads |-> {"model", "train_dataset"}, binds |-> {},
      step |-> "fit"],
     [line |-> 34, reads |-> {"model"}, binds |-> {}, step |-> "save"],
     [line |-> 36,
      reads |-> {"model", "train_dataset", "regression_metric",
                 "transformers"},
      binds |-> {"train_scores"}, step |-> "evaluate_train"],
     [line |-> 37, reads |-> {}, binds |-> {}, step |-> ""],
     [line |-> 38, reads |-> {"train_scores"}, binds |-> {}, step |-> ""],
     [line |-> 40,
      reads |-> {"model", "test_dataset", "regression_metric",
                 "transformers"},
      binds |-> {"test_scores"}, step |-> "evaluate_test"],
     [line |-> 41, reads |-> {}, binds |-> {}, step |-> ""],
     [line |-> 42, reads |-> {"test_scores"}, binds |-> {}, step |-> ""] >>

ScriptIdle == [next |-> 1, bound |-> {}, steps |-> <<>>, error |-> "none"]

\* The next statement runs: NameError when it reads a name not bound yet.
ScriptStep ==
  /\ pc \in {"idle", "script_running"}
  /\ self.cls = ScriptRun
  /\ LET stmt == Statements[script.next]
     IN IF ~(stmt.reads \subseteq script.bound)
        THEN /\ script' = [script EXCEPT !.error = "NameError"]
             /\ pc' = "script_raised"
        ELSE /\ script' = [script EXCEPT
                             !.next = @ + 1,
                             !.bound = @ \cup stmt.binds,
                             !.steps = IF stmt.step = "" THEN @
                                       ELSE Append(@, stmt.step)]
             /\ pc' = IF script.next = Len(Statements) THEN "script_done"
                      ELSE "script_running"
  /\ UNCHANGED <<self, fit, pred, bld, cg>>

\* C7: run from its first statement, the script reaches each of these steps
\* in this order without an unbound name: load the dataset, unpack the train
\* and test datasets, construct the regressor, fit, save, evaluate on train,
\* evaluate on test.
C7_ScriptRuns ==
  pc \in {"script_done", "script_raised"} =>
    /\ pc = "script_done"
    /\ script.error = "none"
    /\ script.steps = <<"load", "unpack", "construct", "fit", "save",
                        "evaluate_train", "evaluate_test">>

\* --------------------------------------------------------------------- spec
Init ==
  /\ self \in GraphObjects \cup FitTransformObjects \cup {ScriptObject}
  /\ pc = "idle"
  /\ fit = FitIdle
  /\ pred = PredIdle
  /\ bld = BuildIdle
  /\ cg = GraphIdle
  /\ script = ScriptIdle

Next == Fit \/ Predict \/ Build \/ ConstructGraph \/ ScriptStep

Spec == Init /\ [][Next]_vars
=============================================================================
